---- MODULE Spec2Model ----
(***************************************************************************)
(* Model of the BeaconChain coordinator of                                 *)
(* packages/lodestar/src/chain/chain.ts: start(), stop(), waitForState(),  *)
(* the eth1 "block" listener, checkGenesis() and initializeBeaconChain(),  *)
(* together with the storage cells and the fork-choice nodes they touch.   *)
(* Every await of the source is a step boundary; the code between two      *)
(* awaits (and the promise continuations that run back to back as          *)
(* microtasks) is one action.                                              *)
(***************************************************************************)
EXTENDS Integers, Sequences, FiniteSets, TLC

\* Number of eth1 "block" events the eth1 notifier delivers, numbered in
\* order of arrival.
MaxEth1Blocks == 2

\* Number of deposits the eth1 deposit contract holds.
MaxDeposits == 1

\* Number of storage or eth1 requests that may fail in one run.
MaxFaults == 1

\* config.params.MIN_GENESIS_ACTIVE_VALIDATOR_COUNT, read by isValidGenesisState.
MIN_GENESIS_ACTIVE_VALIDATOR_COUNT == 1

\* constants: GENESIS_SLOT.
GENESIS_SLOT == 0

\* config.params.SLOTS_PER_EPOCH, read by computeEpochAtSlot.
SLOTS_PER_EPOCH == 8

\* config.params.GENESIS_FORK_VERSION: the fork version of a genesis state.
GENESIS_FORK_VERSION == 0

\* The epoch at which the fork schedule switches to the next fork version.
ForkEpoch == 1

\* Number of receiveBlock and receiveAttestation calls in one run.
MaxReceived == 2

\* Number of deposits in the log a single checkGenesis call is followed on.
MaxLeaves == 4

\* An absent value (null, undefined) and a present one.
None == <<>>
Some(v) == <<v>>
ValueOf(o) == o[1]

\* Buffer.alloc(32): the all-zero root.
ZeroRoot == 0

Eth1BlockNumbers == 1..MaxEth1Blocks

VARIABLES
  deposits,           \* eth1 deposit log: deposits[i] = eth1 block number of deposit i
  db,                 \* IBeaconDb: the storage cells the coordinator reads and writes
  forkChoice,         \* this.forkChoice
  eth1,               \* this.eth1: registered "block" listener, block cache, events emitted
  eth1Listener,       \* this.eth1Listener is defined
  check,              \* check[n]: the checkGenesis call made for eth1 block n
  startPc,            \* position of start()/waitForState()
  startState,         \* the local `state` of start()
  clock,              \* this.clock
  blockProcessor,     \* this.blockProcessor
  currentForkDigest,  \* this._currentForkDigest
  stopPc,             \* position of stop()
  stopCalledAt,       \* whether start() was waiting for genesis when stop() was called
  startLog,           \* subsystem calls made by start(), in order
  stopLog,            \* subsystem calls made by stop(), in order
  faults,             \* number of failed requests so far
  received,           \* calls of receiveBlock and receiveAttestation so far, in call order
  blockJobs,          \* jobs handed to blockProcessor.receiveBlock, in order
  attestationJobs,    \* attestations handed to attestationProcessor.receiveAttestation
  processed,          \* indices of the block jobs the block processor has finished
  eth1Block,          \* checkGenesis: the number of its eth1Block argument
  pastDeposits,       \* checkGenesis: the depositDatas processPastDeposits returned
  tree,               \* checkGenesis: the leaves of depositDataRootList and of its backing tree
  mapped,             \* checkGenesis: the deposits the map callback has returned so far
  formedState         \* checkGenesis: the genesisState formed from them

\* What the receive calls and the processors work on.
receiveVars == <<received, blockJobs, attestationJobs, processed>>

\* The locals of one checkGenesis call, followed through its map callback.
checkGenesisVars == <<eth1Block, pastDeposits, tree, mapped, formedState>>

vars == <<deposits, db, forkChoice, eth1, eth1Listener, check, startPc, startState,
          clock, blockProcessor, currentForkDigest, stopPc, stopCalledAt, startLog,
          stopLog, faults, receiveVars, checkGenesisVars>>

----------------------------------------------------------------------------
(* Pure helpers                                                            *)

\* eth1.processPastDeposits(undefined, toNumber): the deposits of blocks up to toNumber,
\* in log order. A deposit datum is identified by its index in the log.
processPastDeposits(toNumber) ==
  SelectSeq([i \in 1..Len(deposits) |-> i], LAMBDA i : deposits[i] <= toNumber)

\* config.types.DepositData.hashTreeRoot(data)
DepositDataRoot(data) == 500 + data

\* The depositDataRootList built by the map callback of checkGenesis: one leaf pushed
\* per deposit, in the returned order.
BuildDepositDataRootList(depositDatas) ==
  [i \in 1..Len(depositDatas) |-> DepositDataRoot(depositDatas[i])]

\* initializeBeaconStateFromEth1(config, eth1Block.hash, eth1Block.timestamp, deposits)
initializeBeaconStateFromEth1(n, depositDatas) ==
  [slot |-> GENESIS_SLOT,
   forkVersion |-> GENESIS_FORK_VERSION,
   genesisValidatorsRoot |-> 300 + Len(depositDatas),
   eth1BlockHash |-> n,
   genesisTime |-> 100 + n,
   validators |-> Len(depositDatas),
   eth1DepositIndex |-> Len(depositDatas)]

\* isValidGenesisState(config, state)
isValidGenesisState(state) ==
  state.validators >= MIN_GENESIS_ACTIVE_VALIDATOR_COUNT

\* The genesis state checkGenesis computes for eth1 block n.
GenesisStateOf(n) == initializeBeaconStateFromEth1(n, processPastDeposits(n))

\* config.types.BeaconState.hashTreeRoot(state): distinct states have distinct roots.
StateRoot(state) == 1 + state.eth1BlockHash * 10 + state.eth1DepositIndex + 100 * state.slot

\* getEmptyBlock() with stateRoot set.
GenesisBlock(stateRoot) ==
  [slot |-> GENESIS_SLOT, parentRoot |-> ZeroRoot, stateRoot |-> stateRoot]

\* config.types.BeaconBlock.hashTreeRoot(block)
BlockRoot(block) == 1000 + 100 * block.slot + block.stateRoot

\* computeEpochAtSlot(config, slot)
computeEpochAtSlot(slot) == slot \div SLOTS_PER_EPOCH

\* computeForkDigest(config, currentVersion, genesisValidatorsRoot)
computeForkDigest(currentVersion, genesisValidatorsRoot) ==
  2000 + 1000 * currentVersion + genesisValidatorsRoot

----------------------------------------------------------------------------
(* Storage (IBeaconDb)                                                     *)

\* The six writes initializeBeaconChain hands to Promise.all.
WriteKeys == {"storeChainHead", "setJustifiedBlockRoot", "setFinalizedBlockRoot",
              "setJustifiedStateRoot", "setFinalizedStateRoot", "depositDataRootList"}

EmptyDb ==
  [blockBySlot |-> None,
   blocks |-> {},
   states |-> {},
   head |-> None,
   latestState |-> None,
   justifiedBlockRoot |-> None,
   finalizedBlockRoot |-> None,
   justifiedStateRoot |-> None,
   finalizedStateRoot |-> None,
   depositDataRootList |-> {}]

\* db.storeChainHead(signedBlock, state): block, state and chain head in one batch.
storeChainHead(d, block, state) ==
  [d EXCEPT !.blockBySlot = Some(block),
            !.blocks = @ \cup {block},
            !.states = @ \cup {state},
            !.head = Some(BlockRoot(block)),
            !.latestState = Some(state)]

\* db.depositDataRootList.set(index, list): one list per index.
depositDataRootListSet(d, index, list) ==
  [d EXCEPT !.depositDataRootList =
     {e \in @ : e.index # index} \cup {[index |-> index, list |-> list]}]

\* The effect on storage of the write named key, issued by initializeBeaconChain for
\* genesisState and depositDataRootList.
ApplyWrite(d, key, genesisState, depositDataRootList) ==
  LET stateRoot == StateRoot(genesisState)
      genesisBlock == GenesisBlock(stateRoot)
      blockRoot == BlockRoot(genesisBlock)
  IN CASE key = "storeChainHead" -> storeChainHead(d, genesisBlock, genesisState)
       [] key = "setJustifiedBlockRoot" -> [d EXCEPT !.justifiedBlockRoot = Some(blockRoot)]
       [] key = "setFinalizedBlockRoot" -> [d EXCEPT !.finalizedBlockRoot = Some(blockRoot)]
       [] key = "setJustifiedStateRoot" -> [d EXCEPT !.justifiedStateRoot = Some(stateRoot)]
       [] key = "setFinalizedStateRoot" -> [d EXCEPT !.finalizedStateRoot = Some(stateRoot)]
       [] key = "depositDataRootList" ->
            depositDataRootListSet(d, genesisState.eth1DepositIndex, depositDataRootList)

\* db.block.getBlockBySlot(GENESIS_SLOT)
getBlockBySlot(d) == d.blockBySlot

\* db.state.get(root)
stateGet(d, root) ==
  IF \E s \in d.states : Some(StateRoot(s)) = root
    THEN Some(CHOOSE s \in d.states : Some(StateRoot(s)) = root)
    ELSE None

\* The deposit root list that belongs to a genesis state.
ListOf(state) == [i \in 1..state.eth1DepositIndex |-> DepositDataRoot(i)]

\* Storage as a completed genesis initialization for genesisState leaves it.
RECURSIVE ApplyWrites(_, _, _)
ApplyWrites(d, keys, genesisState) ==
  IF keys = {} THEN d
  ELSE LET k == CHOOSE k \in keys : TRUE
       IN ApplyWrites(ApplyWrite(d, k, genesisState, ListOf(genesisState)),
                      keys \ {k}, genesisState)

\* A genesis state of another configuration, left in storage by an earlier run.
ForeignState ==
  [slot |-> GENESIS_SLOT, forkVersion |-> GENESIS_FORK_VERSION, genesisValidatorsRoot |-> 301,
   eth1BlockHash |-> 0, genesisTime |-> 100, validators |-> 1, eth1DepositIndex |-> 1]

----------------------------------------------------------------------------
(* Fork choice (ILMDGHOST)                                                 *)

\* forkChoice.addBlock(node): insert the node; the checkpoints advance when the
\* node's epoch is strictly greater (or none is set yet).
addBlock(fc, node) ==
  [fc EXCEPT
     !.nodes = @ \cup {node},
     !.justified = IF @ = None \/ (@ # None /\ node.justifiedCheckpoint.epoch > ValueOf(@).epoch)
                     THEN Some(node.justifiedCheckpoint) ELSE @,
     !.finalized = IF @ = None \/ (@ # None /\ node.finalizedCheckpoint.epoch > ValueOf(@).epoch)
                     THEN Some(node.finalizedCheckpoint) ELSE @]

\* GenesisNode with the checkpoints rooted at the state root instead of the block root.
GenesisNodeStateRootCheckpoint(genesisState) ==
  LET stateRoot == StateRoot(genesisState)
      genesisBlock == GenesisBlock(stateRoot)
      blockRoot == BlockRoot(genesisBlock)
      justifiedFinalizedCheckpoint ==
        [root |-> stateRoot, epoch |-> computeEpochAtSlot(genesisBlock.slot)]
  IN [slot |-> genesisBlock.slot,
      blockRootBuf |-> blockRoot,
      stateRootBuf |-> stateRoot,
      parentRootBuf |-> ZeroRoot,
      justifiedCheckpoint |-> justifiedFinalizedCheckpoint,
      finalizedCheckpoint |-> justifiedFinalizedCheckpoint]

\* The node initializeBeaconChain adds for genesisState.
GenesisNode(genesisState) ==
  LET stateRoot == StateRoot(genesisState)
      genesisBlock == GenesisBlock(stateRoot)
      blockRoot == BlockRoot(genesisBlock)
      justifiedFinalizedCheckpoint ==
        [root |-> blockRoot, epoch |-> computeEpochAtSlot(genesisBlock.slot)]
  IN [slot |-> genesisBlock.slot,
      blockRootBuf |-> blockRoot,
      stateRootBuf |-> stateRoot,
      parentRootBuf |-> ZeroRoot,
      justifiedCheckpoint |-> justifiedFinalizedCheckpoint,
      finalizedCheckpoint |-> justifiedFinalizedCheckpoint]

\* The leaf reached from root by descending to the child with the largest block root
\* (no attestation weights are modelled, so every step is a tie).
RECURSIVE Descend(_, _)
Descend(fc, root) ==
  LET children == {n \in fc.nodes : n.parentRootBuf = root}
  IN IF children = {} THEN root
     ELSE Descend(fc, (CHOOSE c \in children :
                         \A d \in children : c.blockRootBuf >= d.blockRootBuf).blockRootBuf)

\* forkChoice.head(): the root reached from the justified block; none while no
\* justified checkpoint is set.
head(fc) ==
  IF fc.justified = None THEN None
  ELSE Some(Descend(fc, ValueOf(fc.justified).root))

\* forkChoice.headStateRoot(): the state root of the head node.
headStateRoot(fc) ==
  IF head(fc) = None THEN None
  ELSE LET n == CHOOSE n \in fc.nodes : n.blockRootBuf = ValueOf(head(fc))
       IN Some(n.stateRootBuf)

----------------------------------------------------------------------------
(* Initial state: the coordinator as its constructor leaves it             *)

NoWrites == [k \in WriteKeys |-> "none"]

IdleCheck == [pc |-> "idle", writes |-> NoWrites, err |-> "none", afterError |-> FALSE]

\* Deposit logs: block numbers in log order.
DepositLogs ==
  {d \in UNION {[1..len -> Eth1BlockNumbers] : len \in 0..MaxDeposits} :
     \A i \in 1..(Len(d) - 1) : d[i] <= d[i + 1]}

\* Storage is empty, or holds what an earlier run's completed genesis initialization
\* left: for another configuration, or for a state some eth1 block forms again.
InitialDbs ==
  {EmptyDb, ApplyWrites(EmptyDb, WriteKeys, ForeignState)}
  \cup {ApplyWrites(EmptyDb, WriteKeys, GenesisStateOf(n)) :
          n \in {m \in Eth1BlockNumbers : isValidGenesisState(GenesisStateOf(m))}}

\* The fields the constructor sets, with no call made yet.
Constructed ==
  /\ forkChoice = [nodes |-> {}, justified |-> None, finalized |-> None, status |-> "new"]
  /\ eth1 = [listening |-> FALSE, blockCache |-> FALSE, emitted |-> 0]
  /\ eth1Listener = FALSE
  /\ check = [n \in Eth1BlockNumbers |-> IdleCheck]
  /\ startPc = "idle"
  /\ startState = None
  /\ clock = "undefined"
  /\ blockProcessor = "new"
  /\ currentForkDigest = None
  /\ stopPc = "idle"
  /\ stopCalledAt = "never"
  /\ startLog = <<>>
  /\ stopLog = <<>>
  /\ faults = 0
  /\ received = <<>>
  /\ blockJobs = <<>>
  /\ attestationJobs = <<>>
  /\ processed = {}
  /\ eth1Block = None
  /\ pastDeposits = <<>>
  /\ tree = <<>>
  /\ mapped = <<>>
  /\ formedState = None

Init ==
  /\ deposits \in DepositLogs
  /\ db \in InitialDbs
  /\ Constructed

----------------------------------------------------------------------------
(* start() and waitForState()                                              *)

\* Start that creates and starts the clock before waiting for a state.
StartClockFirst ==
  /\ startPc = "idle"
  /\ startPc' = "getLatest"
  /\ clock' = "starting"
  /\ UNCHANGED <<receiveVars, checkGenesisVars>>
  /\ UNCHANGED <<deposits, db, forkChoice, eth1, eth1Listener, check, startState,
                 blockProcessor, currentForkDigest, stopPc, stopCalledAt, startLog, stopLog,
                 faults>>

\* start(): waitForState() is entered and db.state.getLatest() is issued.
Start ==
  /\ startPc = "idle"
  /\ startPc' = "getLatest"
  /\ UNCHANGED <<receiveVars, checkGenesisVars>>
  /\ UNCHANGED <<deposits, db, forkChoice, eth1, eth1Listener, check, startState, clock,
                 blockProcessor, currentForkDigest, stopPc, stopCalledAt, startLog, stopLog,
                 faults>>

\* db.state.getLatest() resolves: this.eth1Listener is undefined, nothing is removed,
\* waitForState returns the stored state.
GetLatestResolves ==
  /\ startPc = "getLatest"
  /\ db.latestState # None
  /\ startState' = db.latestState
  /\ startPc' = "haveState"
  /\ startLog' = Append(startLog, "waitForState")
  /\ UNCHANGED <<receiveVars, checkGenesisVars>>
  /\ UNCHANGED <<deposits, db, forkChoice, eth1, eth1Listener, check, clock,
                 blockProcessor, currentForkDigest, stopPc, stopCalledAt, stopLog, faults>>

\* The catch branch of waitForState: the listener is created and registered, and
\* waitForState waits on the promise the listener resolves.
InstallEth1Listener ==
  /\ eth1Listener' = TRUE
  /\ eth1' = [eth1 EXCEPT !.listening = TRUE]
  /\ startPc' = "waiting"
  /\ UNCHANGED <<receiveVars, checkGenesisVars>>
  /\ UNCHANGED <<deposits, db, forkChoice, check, startState, clock,
                 blockProcessor, currentForkDigest, stopPc, stopCalledAt, startLog, stopLog>>

\* db.state.getLatest() rejects because storage holds no state.
GetLatestRejects ==
  /\ startPc = "getLatest"
  /\ db.latestState = None
  /\ InstallEth1Listener
  /\ UNCHANGED faults

\* db.state.getLatest() rejects because the read failed.
GetLatestFails ==
  /\ startPc = "getLatest"
  /\ db.latestState # None
  /\ faults < MaxFaults
  /\ faults' = faults + 1
  /\ InstallEth1Listener

\* After waitForState returned: eth1.initBlockCache, forkChoice.start, new LocalClock,
\* and clock.start() is called.
StartSubsystems ==
  /\ startPc = "haveState"
  /\ eth1' = [eth1 EXCEPT !.blockCache = TRUE]
  /\ forkChoice' = [forkChoice EXCEPT !.status = "started"]
  /\ clock' = "starting"
  /\ startLog' = startLog \o <<"initBlockCache", "forkChoice.start", "clock.start">>
  /\ startPc' = "clockStarting"
  /\ UNCHANGED <<receiveVars, checkGenesisVars>>
  /\ UNCHANGED <<deposits, db, eth1Listener, check, startState, blockProcessor,
                 currentForkDigest, stopPc, stopCalledAt, stopLog, faults>>

\* clock.start() resolves; blockProcessor.start() is called.
ClockStarted ==
  /\ startPc = "clockStarting"
  /\ clock' = IF clock = "starting" THEN "started" ELSE clock
  /\ blockProcessor' = "starting"
  /\ startLog' = startLog \o <<"clock.started", "blockProcessor.start">>
  /\ startPc' = "blockProcessorStarting"
  /\ UNCHANGED <<receiveVars, checkGenesisVars>>
  /\ UNCHANGED <<deposits, db, forkChoice, eth1, eth1Listener, check, startState,
                 currentForkDigest, stopPc, stopCalledAt, stopLog, faults>>

\* blockProcessor.start() resolves; getCurrentForkDigest() calls getHeadState(), which
\* issues db.state.get(forkChoice.headStateRoot()).
BlockProcessorStarted ==
  /\ startPc = "blockProcessorStarting"
  /\ blockProcessor' = IF blockProcessor = "starting" THEN "started" ELSE blockProcessor
  /\ startLog' = Append(startLog, "blockProcessor.started")
  /\ startPc' = "getHeadState"
  /\ UNCHANGED <<receiveVars, checkGenesisVars>>
  /\ UNCHANGED <<deposits, db, forkChoice, eth1, eth1Listener, check, startState, clock,
                 currentForkDigest, stopPc, stopCalledAt, stopLog, faults>>

\* getHeadState() resolves: computeForkDigest of the head state is cached and start()
\* returns; with no head state, state.fork throws and start() rejects.
ForkDigestComputed ==
  /\ startPc = "getHeadState"
  /\ LET state == stateGet(db, headStateRoot(forkChoice))
     IN IF state = None
          THEN /\ startPc' = "failed"
               /\ UNCHANGED <<currentForkDigest, startLog>>
          ELSE /\ currentForkDigest' =
                    Some(computeForkDigest(ValueOf(state).forkVersion,
                                           ValueOf(state).genesisValidatorsRoot))
               /\ startLog' = Append(startLog, "currentForkDigest")
               /\ startPc' = "done"
  /\ UNCHANGED <<receiveVars, checkGenesisVars>>
  /\ UNCHANGED <<deposits, db, forkChoice, eth1, eth1Listener, check, startState, clock,
                 blockProcessor, stopPc, stopCalledAt, stopLog, faults>>

----------------------------------------------------------------------------
(* The eth1 "block" listener, checkGenesis() and initializeBeaconChain()   *)

\* The eth1 notifier emits its next block. With the listener registered, the listener
\* calls checkGenesis(eth1Block), which issues eth1.processPastDeposits and returns
\* to the notifier without being awaited.
Eth1Block ==
  /\ eth1.emitted < MaxEth1Blocks
  /\ LET n == eth1.emitted + 1
     IN /\ eth1' = [eth1 EXCEPT !.emitted = n]
        /\ check' = IF eth1.listening
                      THEN [check EXCEPT ![n] =
                             [pc |-> "processPastDeposits", writes |-> NoWrites, err |-> "none",
                              afterError |-> \E m \in Eth1BlockNumbers : check[m].pc = "rejected"]]
                      ELSE check
  /\ UNCHANGED <<receiveVars, checkGenesisVars>>
  /\ UNCHANGED <<deposits, db, forkChoice, eth1Listener, startPc, startState, clock,
                 blockProcessor, currentForkDigest, stopPc, stopCalledAt, startLog, stopLog,
                 faults>>

\* DepositsFetched without the isValidGenesisState test.
DepositsFetchedUnchecked(n) ==
  /\ check[n].pc = "processPastDeposits"
  /\ check' = [check EXCEPT ![n].pc = "getBlockBySlot"]
  /\ UNCHANGED <<receiveVars, checkGenesisVars>>
  /\ UNCHANGED <<deposits, db, forkChoice, eth1, eth1Listener, startPc, startState, clock,
                 blockProcessor, currentForkDigest, stopPc, stopCalledAt, startLog, stopLog,
                 faults>>

\* processPastDeposits resolves: the root list and the genesis state are built. An
\* invalid state makes checkGenesis return null, and the then-callback of the listener
\* does nothing with it; a valid one enters initializeBeaconChain, which issues
\* db.block.getBlockBySlot(GENESIS_SLOT).
DepositsFetched(n) ==
  /\ check[n].pc = "processPastDeposits"
  /\ check' = [check EXCEPT ![n].pc =
                 IF isValidGenesisState(GenesisStateOf(n)) THEN "getBlockBySlot"
                                                           ELSE "returnedNull"]
  /\ UNCHANGED <<receiveVars, checkGenesisVars>>
  /\ UNCHANGED <<deposits, db, forkChoice, eth1, eth1Listener, startPc, startState, clock,
                 blockProcessor, currentForkDigest, stopPc, stopCalledAt, startLog, stopLog,
                 faults>>

\* A request of checkGenesis n rejects: the promise checkGenesis returned rejects, and
\* the listener attached no rejection handler to it.
CheckRejects(n, err) ==
  /\ check' = [check EXCEPT ![n].pc = "rejected", ![n].err = err]
  /\ UNCHANGED <<receiveVars, checkGenesisVars>>
  /\ UNCHANGED <<deposits, db, forkChoice, eth1, eth1Listener, startPc, startState, clock,
                 blockProcessor, currentForkDigest, stopPc, stopCalledAt, startLog, stopLog>>

\* eth1.processPastDeposits rejects.
DepositsFetchFails(n) ==
  /\ check[n].pc = "processPastDeposits"
  /\ faults < MaxFaults
  /\ faults' = faults + 1
  /\ CheckRejects(n, "eth1")

\* GenesisMismatch comparing the slots of the two blocks instead of their state roots.
GenesisMismatchBySlot(storedGenesisBlock, genesisBlock) ==
  /\ storedGenesisBlock # None
  /\ genesisBlock.slot # ValueOf(storedGenesisBlock).slot

\* GenesisMismatch that rejects whenever any slot-0 block is stored.
GenesisMismatchAnyStored(storedGenesisBlock, genesisBlock) ==
  storedGenesisBlock # None

\* The test of initializeBeaconChain on the stored slot-0 block.
GenesisMismatch(storedGenesisBlock, genesisBlock) ==
  /\ storedGenesisBlock # None
  /\ genesisBlock.stateRoot # ValueOf(storedGenesisBlock).stateRoot

\* getBlockBySlot resolves: on a mismatch initializeBeaconChain throws; otherwise the
\* six writes are issued together and Promise.all is awaited.
GetBlockBySlotResolves(n) ==
  /\ check[n].pc = "getBlockBySlot"
  /\ LET genesisBlock == GenesisBlock(StateRoot(GenesisStateOf(n)))
     IN IF GenesisMismatch(getBlockBySlot(db), genesisBlock)
          THEN check' = [check EXCEPT ![n].pc = "rejected", ![n].err = "mismatch"]
          ELSE check' = [check EXCEPT ![n].pc = "writes",
                                      ![n].writes = [k \in WriteKeys |-> "pending"]]
  /\ UNCHANGED <<receiveVars, checkGenesisVars>>
  /\ UNCHANGED <<deposits, db, forkChoice, eth1, eth1Listener, startPc, startState, clock,
                 blockProcessor, currentForkDigest, stopPc, stopCalledAt, startLog, stopLog,
                 faults>>

\* getBlockBySlot rejects.
GetBlockBySlotFails(n) ==
  /\ check[n].pc = "getBlockBySlot"
  /\ faults < MaxFaults
  /\ faults' = faults + 1
  /\ CheckRejects(n, "storage")

\* One of the six writes of checkGenesis n commits.
WriteCommits(n, key) ==
  /\ check[n].writes[key] = "pending"
  /\ db' = ApplyWrite(db, key, GenesisStateOf(n),
                      BuildDepositDataRootList(processPastDeposits(n)))
  /\ check' = [check EXCEPT ![n].writes[key] = "ok"]
  /\ UNCHANGED <<receiveVars, checkGenesisVars>>
  /\ UNCHANGED <<deposits, forkChoice, eth1, eth1Listener, startPc, startState, clock,
                 blockProcessor, currentForkDigest, stopPc, stopCalledAt, startLog, stopLog,
                 faults>>

\* One of the six writes fails and commits nothing: Promise.all rejects at the first
\* failure, while the other writes stay in flight.
WriteFails(n, key) ==
  /\ check[n].writes[key] = "pending"
  /\ faults < MaxFaults
  /\ faults' = faults + 1
  /\ check' = [check EXCEPT ![n].writes[key] = "failed",
                            ![n].pc = IF @ = "writes" THEN "rejected" ELSE @,
                            ![n].err = IF check[n].pc = "writes" THEN "storage" ELSE @]
  /\ UNCHANGED <<receiveVars, checkGenesisVars>>
  /\ UNCHANGED <<deposits, db, forkChoice, eth1, eth1Listener, startPc, startState, clock,
                 blockProcessor, currentForkDigest, stopPc, stopCalledAt, startLog, stopLog>>

\* WaitForStateReturns without the removeListener call.
WaitForStateReturnsKeepsListener(state) ==
  /\ eth1' = eth1
  /\ startState' = Some(state)
  /\ startPc' = "haveState"
  /\ startLog' = Append(startLog, "waitForState")

\* Lines 187-190 of waitForState, run when the promise it waits on resolves: the
\* listener is removed and the state returned to start().
WaitForStateReturns(state) ==
  /\ eth1' = [eth1 EXCEPT !.listening = IF eth1Listener THEN FALSE ELSE @]
  /\ startState' = Some(state)
  /\ startPc' = "haveState"
  /\ startLog' = Append(startLog, "waitForState")

\* InitializeBeaconChainReturns that goes on as soon as one write has settled and none
\* has failed, as with Promise.race in place of Promise.all.
InitializeBeaconChainReturnsEarly(n) ==
  /\ check[n].pc = "writes"
  /\ \E k \in WriteKeys : check[n].writes[k] = "ok"
  /\ forkChoice' = addBlock(forkChoice, GenesisNode(GenesisStateOf(n)))
  /\ check' = [check EXCEPT ![n].pc = "returned"]
  /\ IF startPc = "waiting"
       THEN WaitForStateReturns(GenesisStateOf(n))
       ELSE UNCHANGED <<eth1, startState, startPc, startLog>>
  /\ UNCHANGED <<receiveVars, checkGenesisVars>>
  /\ UNCHANGED <<deposits, db, eth1Listener, clock, blockProcessor, currentForkDigest,
                 stopPc, stopCalledAt, stopLog, faults>>

\* Promise.all resolves: the genesis node is added to fork choice, initializeBeaconChain
\* and checkGenesis return, and the then-callback of the listener calls resolve(state),
\* which settles the promise of waitForState if it is still pending.
InitializeBeaconChainReturns(n) ==
  /\ check[n].pc = "writes"
  /\ \A k \in WriteKeys : check[n].writes[k] = "ok"
  /\ forkChoice' = addBlock(forkChoice, GenesisNode(GenesisStateOf(n)))
  /\ check' = [check EXCEPT ![n].pc = "returned"]
  /\ IF startPc = "waiting"
       THEN WaitForStateReturns(GenesisStateOf(n))
       ELSE UNCHANGED <<eth1, startState, startPc, startLog>>
  /\ UNCHANGED <<receiveVars, checkGenesisVars>>
  /\ UNCHANGED <<deposits, db, eth1Listener, clock, blockProcessor, currentForkDigest,
                 stopPc, stopCalledAt, stopLog, faults>>

----------------------------------------------------------------------------
(* stop()                                                                  *)

\* Stop that stops the block processor before fork choice.
StopBlockProcessorFirst ==
  /\ stopPc = "idle"
  /\ blockProcessor' = "stopped"
  /\ forkChoice' = [forkChoice EXCEPT !.status = "stopped"]
  /\ stopLog' = <<"blockProcessor.stop", "forkChoice.stop">>
  /\ stopPc' = "forkChoiceStopping"
  /\ stopCalledAt' = IF startPc = "waiting" THEN "waiting" ELSE "other"
  /\ UNCHANGED <<receiveVars, checkGenesisVars>>
  /\ UNCHANGED <<deposits, db, eth1, eth1Listener, check, startPc, startState, clock,
                 currentForkDigest, startLog, faults>>

\* stop(): forkChoice.stop() is called.
Stop ==
  /\ stopPc = "idle"
  /\ forkChoice' = [forkChoice EXCEPT !.status = "stopped"]
  /\ stopLog' = Append(stopLog, "forkChoice.stop")
  /\ stopPc' = "forkChoiceStopping"
  /\ stopCalledAt' = IF startPc = "waiting" THEN "waiting" ELSE "other"
  /\ UNCHANGED <<receiveVars, checkGenesisVars>>
  /\ UNCHANGED <<deposits, db, eth1, eth1Listener, check, startPc, startState, clock,
                 blockProcessor, currentForkDigest, startLog, faults>>

\* forkChoice.stop() resolves; this.clock.stop() is called, which throws a TypeError
\* when this.clock is still undefined.
StopClock ==
  /\ stopPc = "forkChoiceStopping"
  /\ IF clock = "undefined"
       THEN /\ stopPc' = "failed"
            /\ UNCHANGED <<clock, stopLog>>
       ELSE /\ clock' = "stopped"
            /\ stopLog' = stopLog \o <<"forkChoice.stopped", "clock.stop">>
            /\ stopPc' = "clockStopping"
  /\ UNCHANGED <<receiveVars, checkGenesisVars>>
  /\ UNCHANGED <<stopCalledAt, deposits, db, forkChoice, eth1, eth1Listener, check, startPc,
                 startState, blockProcessor, currentForkDigest, startLog, faults>>

\* clock.stop() resolves; blockProcessor.stop() is called.
StopBlockProcessor ==
  /\ stopPc = "clockStopping"
  /\ blockProcessor' = "stopped"
  /\ stopLog' = stopLog \o <<"clock.stopped", "blockProcessor.stop">>
  /\ stopPc' = "blockProcessorStopping"
  /\ UNCHANGED <<receiveVars, checkGenesisVars>>
  /\ UNCHANGED <<stopCalledAt, deposits, db, forkChoice, eth1, eth1Listener, check, startPc,
                 startState, clock, currentForkDigest, startLog, faults>>

\* blockProcessor.stop() resolves and stop() returns.
StopReturns ==
  /\ stopPc = "blockProcessorStopping"
  /\ stopLog' = Append(stopLog, "blockProcessor.stopped")
  /\ stopPc' = "done"
  /\ UNCHANGED <<receiveVars, checkGenesisVars>>
  /\ UNCHANGED <<stopCalledAt, deposits, db, forkChoice, eth1, eth1Listener, check, startPc,
                 startState, clock, blockProcessor, currentForkDigest, startLog, faults>>

----------------------------------------------------------------------------

Next ==
  \/ Start
  \/ GetLatestResolves
  \/ GetLatestRejects
  \/ GetLatestFails
  \/ StartSubsystems
  \/ ClockStarted
  \/ BlockProcessorStarted
  \/ ForkDigestComputed
  \/ Eth1Block
  \/ \E n \in Eth1BlockNumbers : DepositsFetched(n)
  \/ \E n \in Eth1BlockNumbers : DepositsFetchFails(n)
  \/ \E n \in Eth1BlockNumbers : GetBlockBySlotResolves(n)
  \/ \E n \in Eth1BlockNumbers : GetBlockBySlotFails(n)
  \/ \E n \in Eth1BlockNumbers, key \in WriteKeys : WriteCommits(n, key)
  \/ \E n \in Eth1BlockNumbers, key \in WriteKeys : WriteFails(n, key)
  \/ \E n \in Eth1BlockNumbers : InitializeBeaconChainReturns(n)
  \/ Stop
  \/ StopClock
  \/ StopBlockProcessor
  \/ StopReturns

Spec == Init /\ [][Next]_vars

----------------------------------------------------------------------------
(* receiveBlock(), receiveAttestation() and the two processors             *)

\* The fork version the fork schedule gives an epoch.
ForkVersionAt(epoch) ==
  IF epoch >= ForkEpoch THEN GENESIS_FORK_VERSION + 1 ELSE GENESIS_FORK_VERSION

\* The state transition of a block at slot on state; the signatures of the blocks
\* received are valid, so that it does not depend on verifySignatures.
stf(state, slot) ==
  [state EXCEPT !.slot = slot, !.forkVersion = ForkVersionAt(computeEpochAtSlot(slot))]

\* The root of the genesis block checkGenesis stores for eth1 block n.
GenesisBlockRootOf(n) == BlockRoot(GenesisBlock(StateRoot(GenesisStateOf(n))))

\* The slots of the blocks received: the slot after genesis and the first of ForkEpoch.
BlockSlots == {GENESIS_SLOT + 1, ForkEpoch * SLOTS_PER_EPOCH}

\* The blocks received: children of the genesis block of an eth1 block.
SignedBlocks ==
  {[slot |-> slot,
    parentRoot |-> GenesisBlockRootOf(n),
    stateRoot |-> StateRoot(stf(GenesisStateOf(n), slot))] :
     slot \in BlockSlots, n \in Eth1BlockNumbers}

\* The attestations received: votes for the genesis block of an eth1 block.
Attestations ==
  {[beaconBlockRoot |-> GenesisBlockRootOf(n),
    targetEpoch |-> computeEpochAtSlot(GENESIS_SLOT)] : n \in Eth1BlockNumbers}

\* The second argument of receiveBlock as the caller wrote it.
TrustedArgs == {"omitted", "true", "false"}

\* ReceiveBlock with a trusted parameter that defaults to true.
ReceiveBlockTrustedByDefault(signedBlock, trustedArg) ==
  /\ Len(received) < MaxReceived
  /\ blockJobs' = Append(blockJobs, [signedBlock |-> signedBlock,
                                     trusted |-> (trustedArg # "false")])
  /\ received' = Append(received, [op |-> "receiveBlock", arg |-> signedBlock,
                                   trusted |-> trustedArg, returned |-> TRUE])
  /\ UNCHANGED <<checkGenesisVars, attestationJobs, processed>>
  /\ UNCHANGED <<deposits, db, forkChoice, eth1, eth1Listener, check, startPc, startState,
                 clock, blockProcessor, currentForkDigest, stopPc, stopCalledAt, startLog,
                 stopLog, faults>>

\* receiveBlock(signedBlock, trusted = false): the job is handed to
\* blockProcessor.receiveBlock, whose result is neither awaited nor returned, and the
\* promise of receiveBlock resolves.
ReceiveBlock(signedBlock, trustedArg) ==
  /\ Len(received) < MaxReceived
  /\ blockJobs' = Append(blockJobs, [signedBlock |-> signedBlock,
                                     trusted |-> (trustedArg = "true")])
  /\ received' = Append(received, [op |-> "receiveBlock", arg |-> signedBlock,
                                   trusted |-> trustedArg, returned |-> TRUE])
  /\ UNCHANGED <<checkGenesisVars, attestationJobs, processed>>
  /\ UNCHANGED <<deposits, db, forkChoice, eth1, eth1Listener, check, startPc, startState,
                 clock, blockProcessor, currentForkDigest, stopPc, stopCalledAt, startLog,
                 stopLog, faults>>

\* receiveAttestation(attestation): the attestation is handed to
\* attestationProcessor.receiveAttestation and the promise of the processor is returned,
\* so that the call settles when the processor does.
ReceiveAttestation(attestation) ==
  /\ Len(received) < MaxReceived
  /\ attestationJobs' = Append(attestationJobs, attestation)
  /\ received' = Append(received, [op |-> "receiveAttestation", arg |-> attestation,
                                   trusted |-> "omitted", returned |-> FALSE])
  /\ UNCHANGED <<checkGenesisVars, blockJobs, processed>>
  /\ UNCHANGED <<deposits, db, forkChoice, eth1, eth1Listener, check, startPc, startState,
                 clock, blockProcessor, currentForkDigest, stopPc, stopCalledAt, startLog,
                 stopLog, faults>>

\* The attestation processor settles the promise of the receiveAttestation call i. No
\* attestation weights are modelled, so fork choice stays as it is.
AttestationProcessed(i) ==
  /\ i \in 1..Len(received)
  /\ received[i].op = "receiveAttestation"
  /\ ~received[i].returned
  /\ received' = [received EXCEPT ![i].returned = TRUE]
  /\ UNCHANGED <<checkGenesisVars, blockJobs, attestationJobs, processed>>
  /\ UNCHANGED <<deposits, db, forkChoice, eth1, eth1Listener, check, startPc, startState,
                 clock, blockProcessor, currentForkDigest, stopPc, stopCalledAt, startLog,
                 stopLog, faults>>

\* The fork-choice node of a processed block: no block received justifies or finalizes
\* anything, so its checkpoints are those of genesis.
BlockNode(block) ==
  LET checkpoint == [root |-> block.parentRoot, epoch |-> computeEpochAtSlot(GENESIS_SLOT)]
  IN [slot |-> block.slot,
      blockRootBuf |-> BlockRoot(block),
      stateRootBuf |-> block.stateRoot,
      parentRootBuf |-> block.parentRoot,
      justifiedCheckpoint |-> checkpoint,
      finalizedCheckpoint |-> checkpoint]

\* The started block processor takes job i through Validated, Applied, Stored and
\* Notified: jobs of one parent in the order received, a job whose parent is not stored
\* stays parked. An applied block and its state are stored, its node is added to fork
\* choice, and the stored chain head follows forkChoice.head() when that changed.
BlockProcessed(i) ==
  /\ blockProcessor = "started"
  /\ i \in (1..Len(blockJobs)) \ processed
  /\ \A j \in 1..(i - 1) :
       blockJobs[j].signedBlock.parentRoot = blockJobs[i].signedBlock.parentRoot
       => j \in processed
  /\ LET block == blockJobs[i].signedBlock
         parents == {b \in db.blocks : BlockRoot(b) = block.parentRoot}
     IN /\ parents # {}
        /\ LET parent == CHOOSE b \in parents : TRUE
               parentState == stateGet(db, Some(parent.stateRoot))
           IN IF parentState = None \/ block.slot <= parent.slot
                THEN UNCHANGED <<db, forkChoice>>
                ELSE LET newState == stf(ValueOf(parentState), block.slot)
                         stored == [db EXCEPT !.blocks = @ \cup {block},
                                              !.states = @ \cup {newState}]
                         fc == addBlock(forkChoice, BlockNode(block))
                     IN /\ forkChoice' = fc
                        /\ db' = IF head(fc) # stored.head
                                   THEN [stored EXCEPT
                                           !.head = head(fc),
                                           !.latestState = stateGet(stored, headStateRoot(fc))]
                                   ELSE stored
  /\ processed' = processed \cup {i}
  /\ UNCHANGED <<checkGenesisVars, received, blockJobs, attestationJobs>>
  /\ UNCHANGED <<deposits, eth1, eth1Listener, check, startPc, startState,
                 clock, blockProcessor, currentForkDigest, stopPc, stopCalledAt, startLog,
                 stopLog, faults>>

\* A node started on empty storage, with every deposit made in the last eth1 block.
ReceiveInit ==
  /\ Init
  /\ db = EmptyDb
  /\ deposits = [i \in 1..MaxDeposits |-> MaxEth1Blocks]

\* The run of such a node with no request failing and no stop(), while blocks and
\* attestations are received.
ReceiveNext ==
  \/ Start
  \/ GetLatestRejects
  \/ StartSubsystems
  \/ ClockStarted
  \/ BlockProcessorStarted
  \/ ForkDigestComputed
  \/ Eth1Block
  \/ \E n \in Eth1BlockNumbers : DepositsFetched(n)
  \/ \E n \in Eth1BlockNumbers : GetBlockBySlotResolves(n)
  \/ \E n \in Eth1BlockNumbers, key \in WriteKeys : WriteCommits(n, key)
  \/ \E n \in Eth1BlockNumbers : InitializeBeaconChainReturns(n)
  \/ \E signedBlock \in SignedBlocks, trustedArg \in TrustedArgs :
       ReceiveBlock(signedBlock, trustedArg)
  \/ \E attestation \in Attestations : ReceiveAttestation(attestation)
  \/ \E i \in 1..MaxReceived : AttestationProcessed(i)
  \/ \E i \in 1..MaxReceived : BlockProcessed(i)

ReceiveSpec == ReceiveInit /\ [][ReceiveNext]_vars

----------------------------------------------------------------------------
(* checkGenesis(): the deposits, the root list and the proofs              *)

\* Deposit logs of up to MaxLeaves deposits.
LeafLogs ==
  {d \in UNION {[1..len -> Eth1BlockNumbers] : len \in 0..MaxLeaves} :
     \A i \in 1..(Len(d) - 1) : d[i] <= d[i + 1]}

\* tree.getSingleProof(depositDataRootList.gindexOfProperty(index)) on a tree with the
\* given leaves: the proof of the leaf at index against the root of those leaves.
getSingleProof(leaves, index) == [index |-> index, leaves |-> leaves]

\* checkGenesis(eth1Block) up to the map call: processPastDeposits(undefined,
\* eth1Block.number) has resolved, and the root list is created empty.
CheckGenesisCalled(n) ==
  /\ eth1Block = None
  /\ eth1Block' = Some(n)
  /\ pastDeposits' = processPastDeposits(n)
  /\ tree' = <<>>
  /\ mapped' = <<>>
  /\ UNCHANGED <<formedState, receiveVars>>
  /\ UNCHANGED <<deposits, db, forkChoice, eth1, eth1Listener, check, startPc, startState,
                 clock, blockProcessor, currentForkDigest, stopPc, stopCalledAt, startLog,
                 stopLog, faults>>

\* MapCallback taking the proof before it pushes the leaf.
MapCallbackProofFirst ==
  /\ eth1Block # None
  /\ formedState = None
  /\ Len(mapped) < Len(pastDeposits)
  /\ LET index == Len(mapped)
         data == pastDeposits[index + 1]
     IN /\ tree' = Append(tree, DepositDataRoot(data))
        /\ mapped' = Append(mapped, [proof |-> getSingleProof(tree, index), data |-> data])
  /\ UNCHANGED <<eth1Block, pastDeposits, formedState, receiveVars>>
  /\ UNCHANGED <<deposits, db, forkChoice, eth1, eth1Listener, check, startPc, startState,
                 clock, blockProcessor, currentForkDigest, stopPc, stopCalledAt, startLog,
                 stopLog, faults>>

\* One call of the map callback, for the next deposit: its root is pushed to
\* depositDataRootList, then the proof of that leaf is taken from tree, the backing tree
\* of the list that holds the leaf just pushed.
MapCallback ==
  /\ eth1Block # None
  /\ formedState = None
  /\ Len(mapped) < Len(pastDeposits)
  /\ LET index == Len(mapped)
         data == pastDeposits[index + 1]
     IN /\ tree' = Append(tree, DepositDataRoot(data))
        /\ mapped' = Append(mapped, [proof |-> getSingleProof(tree', index), data |-> data])
  /\ UNCHANGED <<eth1Block, pastDeposits, formedState, receiveVars>>
  /\ UNCHANGED <<deposits, db, forkChoice, eth1, eth1Listener, check, startPc, startState,
                 clock, blockProcessor, currentForkDigest, stopPc, stopCalledAt, startLog,
                 stopLog, faults>>

\* map has returned: initializeBeaconStateFromEth1 forms genesisState from the deposits
\* with their proofs; depositDataRootList is what initializeBeaconChain will be given.
GenesisStateFormed ==
  /\ eth1Block # None
  /\ formedState = None
  /\ Len(mapped) = Len(pastDeposits)
  /\ formedState' = Some(initializeBeaconStateFromEth1(ValueOf(eth1Block), mapped))
  /\ UNCHANGED <<eth1Block, pastDeposits, tree, mapped, receiveVars>>
  /\ UNCHANGED <<deposits, db, forkChoice, eth1, eth1Listener, check, startPc, startState,
                 clock, blockProcessor, currentForkDigest, stopPc, stopCalledAt, startLog,
                 stopLog, faults>>

\* One checkGenesis call on empty storage, for any deposit log and eth1 block.
CheckGenesisInit ==
  /\ deposits \in LeafLogs
  /\ db = EmptyDb
  /\ Constructed

CheckGenesisNext ==
  \/ \E n \in Eth1BlockNumbers : CheckGenesisCalled(n)
  \/ MapCallback
  \/ GenesisStateFormed

CheckGenesisSpec == CheckGenesisInit /\ [][CheckGenesisNext]_vars

\* Runs in which no request fails and stop() is not called, and in which every
\* continuation that can run does run: the event loop runs each settled promise's
\* continuation, and the eth1 notifier keeps delivering its blocks.
LiveNext ==
  \/ Start
  \/ GetLatestResolves
  \/ GetLatestRejects
  \/ StartSubsystems
  \/ ClockStarted
  \/ BlockProcessorStarted
  \/ ForkDigestComputed
  \/ Eth1Block
  \/ \E n \in Eth1BlockNumbers : DepositsFetched(n)
  \/ \E n \in Eth1BlockNumbers : GetBlockBySlotResolves(n)
  \/ \E n \in Eth1BlockNumbers, key \in WriteKeys : WriteCommits(n, key)
  \/ \E n \in Eth1BlockNumbers : InitializeBeaconChainReturns(n)

LiveSpec == Init /\ [][LiveNext]_vars /\ WF_vars(LiveNext)

----------------------------------------------------------------------------
(* Properties                                                              *)

IsPrefix(a, b) ==
  /\ Len(a) <= Len(b)
  /\ \A i \in 1..Len(a) : a[i] = b[i]

\* checkGenesis was called for eth1 block n.
Called(n) == check[n].pc # "idle"

\* The stored slot-0 block has a state root other than that of the genesis state of n.
StoredGenesisDiffers(n) ==
  /\ db.blockBySlot # None
  /\ ValueOf(db.blockBySlot).stateRoot # StateRoot(GenesisStateOf(n))

\* C1: when initializeBeaconChain reads a stored slot-0 block whose state root differs
\* from the root of its genesis state, it fails with the different-configuration error
\* in that step, leaving storage and fork choice as they were; a call that failed this
\* way has issued none of its writes and has added no node to fork choice.
C1_MismatchFailsWithoutWrites ==
  /\ [][\A n \in Eth1BlockNumbers :
          (/\ check[n].pc = "getBlockBySlot"
           /\ check'[n].pc # "getBlockBySlot"
           /\ faults' = faults
           /\ StoredGenesisDiffers(n))
          => (/\ check'[n].pc = "rejected"
              /\ check'[n].err = "mismatch"
              /\ check'[n].writes = NoWrites
              /\ db' = db
              /\ forkChoice' = forkChoice)]_vars
  /\ [](\A n \in Eth1BlockNumbers :
          check[n].err = "mismatch"
          => (/\ check[n].writes = NoWrites
              /\ \A node \in forkChoice.nodes : node.stateRootBuf # StateRoot(GenesisStateOf(n))))

C1_Witness ==
  \E n \in Eth1BlockNumbers : check[n].pc = "rejected" /\ check[n].err = "mismatch"

\* Storage d and fork choice fc hold exactly the genesis of state, with its deposit
\* root list.
GenesisPersisted(d, fc, state, list) ==
  LET stateRoot == StateRoot(state)
      block == [slot |-> 0, parentRoot |-> ZeroRoot, stateRoot |-> stateRoot]
      blockRoot == BlockRoot(block)
      checkpoint == [root |-> blockRoot, epoch |-> 0]
  IN /\ d.head = Some(blockRoot)
     /\ d.blockBySlot = Some(block)
     /\ d.latestState = Some(state)
     /\ state \in d.states
     /\ d.justifiedBlockRoot = Some(blockRoot)
     /\ d.finalizedBlockRoot = Some(blockRoot)
     /\ d.justifiedStateRoot = Some(stateRoot)
     /\ d.finalizedStateRoot = Some(stateRoot)
     /\ [index |-> state.eth1DepositIndex, list |-> list] \in d.depositDataRootList
     /\ fc.nodes = {[slot |-> 0, blockRootBuf |-> blockRoot, stateRootBuf |-> stateRoot,
                     parentRootBuf |-> ZeroRoot, justifiedCheckpoint |-> checkpoint,
                     finalizedCheckpoint |-> checkpoint]}
     /\ fc.justified = Some(checkpoint)
     /\ fc.finalized = Some(checkpoint)

\* No call of initializeBeaconChain other than that of n has issued writes.
OnlyInitialization(n) ==
  \A m \in Eth1BlockNumbers \ {n} : check[m].writes = NoWrites

\* C2: in the step in which initializeBeaconChain returns for the genesis state of
\* eth1 block n, no other call having written a genesis, storage holds the empty
\* genesis block of that state as chain head, the justified and finalized block and
\* state roots of it, its deposit root list at state.eth1DepositIndex, and fork choice
\* holds exactly the genesis node, justified and finalized at epoch 0.
C2_GenesisPersisted ==
  [][\A n \in Eth1BlockNumbers :
       (check[n].pc = "writes" /\ check'[n].pc = "returned" /\ OnlyInitialization(n))
       => GenesisPersisted(db', forkChoice', GenesisStateOf(n),
                           [i \in 1..Len(processPastDeposits(n)) |-> 500 + processPastDeposits(n)[i]])]_vars

C2_Witness ==
  \E n \in Eth1BlockNumbers : check[n].pc = "returned" /\ OnlyInitialization(n)

\* C3: once the six genesis writes of a call of initializeBeaconChain have settled,
\* each committed or failed, either all of them are committed or none is.
C3_GenesisWritesAtomic ==
  \A n \in Eth1BlockNumbers :
    (\A k \in WriteKeys : check[n].writes[k] # "pending")
    => {k \in WriteKeys : check[n].writes[k] = "ok"} \in {{}, WriteKeys}

\* C4: a check whose state is not a valid genesis state returns null in the step that
\* builds the state, leaving storage, fork choice, the listener and start() as they
\* were; it never issues a write; and start() leaves its wait only with the state of a
\* check that formed a valid genesis state and returned.
C4_InvalidGenesisDiscarded ==
  /\ [][\A n \in Eth1BlockNumbers :
          (/\ check[n].pc = "processPastDeposits"
           /\ check'[n].pc # "processPastDeposits"
           /\ faults' = faults
           /\ Len(processPastDeposits(n)) < MIN_GENESIS_ACTIVE_VALIDATOR_COUNT)
          => (/\ check'[n].pc = "returnedNull"
              /\ db' = db
              /\ forkChoice' = forkChoice
              /\ eth1' = eth1
              /\ startPc' = startPc
              /\ startState' = startState)]_vars
  /\ [](\A n \in Eth1BlockNumbers : check[n].pc = "returnedNull" => check[n].writes = NoWrites)
  /\ [][(startPc = "waiting" /\ startPc' # "waiting")
          => \E m \in Eth1BlockNumbers :
               /\ check'[m].pc = "returned"
               /\ Len(processPastDeposits(m)) >= MIN_GENESIS_ACTIVE_VALIDATOR_COUNT
               /\ startState' = Some(GenesisStateOf(m))]_vars

C4_Witness ==
  /\ \E n \in Eth1BlockNumbers : check[n].pc = "returnedNull"
  /\ startPc = "waiting"
  /\ eth1.listening

\* The earliest eth1 block checked that forms a valid genesis state.
FirstQualifying ==
  LET q == {n \in Eth1BlockNumbers : Called(n) /\ isValidGenesisState(GenesisStateOf(n))}
  IN CHOOSE n \in q : \A m \in q : n <= m

\* C5: with no request failing, the state waitForState returns from the eth1 path, the
\* stored chain head state and the fork-choice node are those of the first-observed
\* eth1 block that forms a valid genesis state.
C5_FirstObservedWins ==
  (startState # None /\ eth1Listener /\ faults = 0)
  => /\ startState = Some(GenesisStateOf(FirstQualifying))
     /\ db.latestState = Some(GenesisStateOf(FirstQualifying))
     /\ \A node \in forkChoice.nodes :
          node.stateRootBuf = StateRoot(GenesisStateOf(FirstQualifying))

StartOrder ==
  <<"waitForState", "initBlockCache", "forkChoice.start", "clock.start", "clock.started",
    "blockProcessor.start", "blockProcessor.started", "currentForkDigest">>

\* C6: the calls start() has made so far are an initial part of: waitForState,
\* initBlockCache, forkChoice.start, clock start (awaited), block processor start
\* (awaited), fork digest; the clock exists and the block processor is started only
\* with a beacon state at hand.
C6_StartOrder ==
  /\ IsPrefix(startLog, StartOrder)
  /\ clock # "undefined" => (startState # None /\ eth1.blockCache)
  /\ blockProcessor \in {"starting", "started"}
       => (startState # None /\ clock \in {"started", "stopped"})
  /\ currentForkDigest # None => blockProcessor \in {"started", "stopped"}

C6_Witness == startPc = "done" /\ currentForkDigest # None

\* C7: the eth1 listener is registered only by the catch branch of waitForState and
\* only while start() waits for genesis: it is not registered once waitForState has
\* returned, and a state loaded from storage leaves no listener defined or registered.
C7_ListenerOnlyWhileWaiting ==
  /\ [](eth1.listening => startPc = "waiting")
  /\ [][(~eth1.listening /\ eth1'.listening)
          => (startPc = "getLatest" /\ startPc' = "waiting")]_vars
  /\ [][(startPc = "getLatest" /\ startPc' = "haveState")
          => (~eth1Listener' /\ ~eth1'.listening /\ startState' = db.latestState)]_vars

C7_Witness == startPc = "done" /\ eth1Listener /\ ~eth1.listening

StopOrder ==
  <<"forkChoice.stop", "forkChoice.stopped", "clock.stop", "clock.stopped",
    "blockProcessor.stop", "blockProcessor.stopped">>

\* C8: the calls stop() has made so far are an initial part of: fork choice stop
\* (awaited), clock stop (awaited), block processor stop (awaited).
C8_StopOrder ==
  /\ IsPrefix(stopLog, StopOrder)
  /\ blockProcessor = "stopped" => clock = "stopped"

C8_Witness == stopPc = "done" /\ blockProcessor = "stopped"

\* C9: a stop() called while start() waits for genesis does not fail, and once it has
\* returned the eth1 listener is unregistered and the wait has ended.
C9_StopWhileWaiting ==
  stopCalledAt = "waiting"
  => /\ stopPc # "failed"
     /\ stopPc = "done" => (~eth1.listening /\ startPc # "waiting")

\* C10: it is never the case that a genesis check has failed while start() still waits
\* and eth1 blocks that arrived after the failure are checked.
C10_FatalErrorPropagates ==
  ~ /\ \E n \in Eth1BlockNumbers : check[n].pc = "rejected"
    /\ startPc = "waiting"
    /\ \E m \in Eth1BlockNumbers : check[m].afterError


\* C11: start() enters the wait for genesis only when storage holds no state: while it
\* waits and no genesis check has written yet, storage has no latest state.
C11_WaitsOnlyWithoutStoredState ==
  (startPc = "waiting" /\ \A n \in Eth1BlockNumbers : check[n].writes = NoWrites)
  => db.latestState = None

\* No genesis check is running and no genesis write is in flight.
Quiescent ==
  \A n \in Eth1BlockNumbers :
    /\ check[n].pc \in {"idle", "returnedNull", "rejected", "returned"}
    /\ \A k \in WriteKeys : check[n].writes[k] # "pending"

\* C12: once start() has completed, with no request failed and nothing in flight, the
\* stored chain head is forkChoice.head() and getHeadState() resolves to the stored
\* head state.
C12_StoredHeadIsForkChoiceHead ==
  (startPc = "done" /\ Quiescent /\ faults = 0)
  => /\ db.head = head(forkChoice)
     /\ stateGet(db, headStateRoot(forkChoice)) = db.latestState

\* C13: every node in fork choice has its state in storage, and the genesis node of an
\* eth1 block is in fork choice only when all six writes of its check are committed.
C13_NodeStateStored ==
  /\ \A node \in forkChoice.nodes : stateGet(db, Some(node.stateRootBuf)) # None
  /\ \A n \in Eth1BlockNumbers :
       (\E node \in forkChoice.nodes : node.stateRootBuf = StateRoot(GenesisStateOf(n)))
       => \A k \in WriteKeys : check[n].writes[k] = "ok"

C13_Witness ==
  \E n \in Eth1BlockNumbers :
    \E node \in forkChoice.nodes : node.stateRootBuf = StateRoot(GenesisStateOf(n))

\* C14: once set, currentForkDigest is computeForkDigest of the fork version and the
\* genesis validators root of the head state.
C14_ForkDigestOfHeadState ==
  currentForkDigest # None
  => LET state == stateGet(db, headStateRoot(forkChoice))
     IN /\ state # None
        /\ currentForkDigest = Some(computeForkDigest(ValueOf(state).forkVersion,
                                                      ValueOf(state).genesisValidatorsRoot))

\* The jobs the receiveBlock calls among calls ask for, in call order.
BlockJobsOf(calls) ==
  LET blockCalls == SelectSeq(calls, LAMBDA c : c.op = "receiveBlock")
  IN [i \in 1..Len(blockCalls) |->
        [signedBlock |-> blockCalls[i].arg,
         trusted |-> IF blockCalls[i].trusted = "omitted" THEN FALSE
                     ELSE blockCalls[i].trusted = "true"]]

\* The attestations the receiveAttestation calls among calls pass, in call order.
AttestationsOf(calls) ==
  LET attestationCalls == SelectSeq(calls, LAMBDA c : c.op = "receiveAttestation")
  IN [i \in 1..Len(attestationCalls) |-> attestationCalls[i].arg]

\* C15: the block processor has been handed exactly the jobs of the receiveBlock calls,
\* in call order, each with the trusted flag given and false where it was omitted, and
\* the attestation processor exactly the attestations of the receiveAttestation calls; a
\* call hands over one item and leaves storage, fork choice and the coordinator as they
\* were; a receiveBlock call has returned in the step that hands over its job, with the
\* job not yet processed.
C15_ThinForwarders ==
  /\ [](/\ blockJobs = BlockJobsOf(received)
        /\ attestationJobs = AttestationsOf(received))
  /\ [][Len(received') > Len(received)
          => /\ Len(received') = Len(received) + 1
             /\ Len(blockJobs') + Len(attestationJobs')
                  = Len(blockJobs) + Len(attestationJobs) + 1
             /\ UNCHANGED <<db, forkChoice, eth1, eth1Listener, check, startPc, startState,
                            clock, blockProcessor, currentForkDigest, stopPc, startLog,
                            stopLog, processed>>
             /\ received'[Len(received')].op = "receiveBlock"
                  => /\ received'[Len(received')].returned
                     /\ Len(blockJobs') \notin processed']_vars

C15_Witness ==
  /\ startPc = "done"
  /\ Len(received) = 2
  /\ received[1].op = "receiveBlock"
  /\ received[1].trusted = "omitted"
  /\ received[1].returned
  /\ 1 \notin processed
  /\ received[2].op = "receiveAttestation"

\* C16: with no request failing, a start() on storage that holds a state, and a start()
\* that waits for genesis while an eth1 block forming a valid genesis state is still to
\* be delivered, eventually completes with the clock and the block processor started.
C16_StartCompletes ==
  (\/ startPc = "idle" /\ db.latestState # None
   \/ /\ startPc = "waiting"
      /\ \E n \in Eth1BlockNumbers :
           n > eth1.emitted /\ isValidGenesisState(GenesisStateOf(n)))
  ~> (startPc = "done" /\ clock = "started" /\ blockProcessor = "started")

\* C17: in a checkGenesis call for eth1 block E, the deposits are exactly those of the
\* log with block number up to E.number, in log order; the root list holds the roots of
\* the deposits mapped so far, in that order; the proof of the deposit at index i is
\* that of leaf i against the list of the first i + 1 leaves; and when the genesis
\* state is formed the list has one leaf per deposit.
C17_DepositListAndProofs ==
  eth1Block # None
  => /\ \A i \in 1..Len(deposits) :
          (deposits[i] <= ValueOf(eth1Block))
          <=> (\E j \in 1..Len(pastDeposits) : pastDeposits[j] = i)
     /\ \A j \in 1..Len(pastDeposits), k \in 1..Len(pastDeposits) :
          j < k => pastDeposits[j] < pastDeposits[k]
     /\ Len(tree) = Len(mapped)
     /\ \A i \in 1..Len(tree) : tree[i] = 500 + pastDeposits[i]
     /\ \A i \in 1..Len(mapped) :
          /\ mapped[i].data = pastDeposits[i]
          /\ mapped[i].proof.index = i - 1
          /\ mapped[i].proof.leaves = SubSeq(tree, 1, i)
     /\ formedState # None => Len(tree) = Len(pastDeposits)

C17_Witness ==
  /\ formedState # None
  /\ Len(tree) >= 2
  /\ Len(tree) < Len(deposits)

\* C18: during one start(), at most one checkGenesis call issues the genesis writes.
C18_AtMostOneInitialization ==
  Cardinality({n \in Eth1BlockNumbers : check[n].writes # NoWrites}) <= 1

\* C19: when start() has completed through the eth1 path, with no request failed and
\* nothing in flight, the state start() holds is the stored chain head state and the
\* state of every genesis node in fork choice.
C19_OneGenesisState ==
  (startPc = "done" /\ eth1Listener /\ Quiescent /\ faults = 0)
  => /\ db.latestState = startState
     /\ \A node \in forkChoice.nodes :
          node.slot = 0 => Some(node.stateRootBuf) = Some(StateRoot(ValueOf(startState)))

\* Storage d holds the complete genesis of state.
GenesisStored(d, state) ==
  LET stateRoot == StateRoot(state)
      block == [slot |-> 0, parentRoot |-> ZeroRoot, stateRoot |-> stateRoot]
      blockRoot == BlockRoot(block)
  IN /\ d.head = Some(blockRoot)
     /\ d.blockBySlot = Some(block)
     /\ d.latestState = Some(state)
     /\ state \in d.states
     /\ d.justifiedBlockRoot = Some(blockRoot)
     /\ d.finalizedBlockRoot = Some(blockRoot)
     /\ d.justifiedStateRoot = Some(stateRoot)
     /\ d.finalizedStateRoot = Some(stateRoot)
     /\ \E e \in d.depositDataRootList : e.index = state.eth1DepositIndex

\* C20: when storage already holds the complete genesis of the state of eth1 block n
\* and no other call writes, initializeBeaconChain for n passes the slot-0 test, each of
\* its writes leaves storage as it was, and it returns with storage unchanged and the
\* genesis node of n in fork choice.
C20_MatchingGenesisIdempotent ==
  [][\A n \in Eth1BlockNumbers :
       (GenesisStored(db, GenesisStateOf(n)) /\ OnlyInitialization(n))
       => /\ (check[n].pc = "getBlockBySlot" /\ check'[n].pc # "getBlockBySlot"
              /\ faults' = faults)
             => check'[n].pc = "writes"
          /\ (check[n].writes # check'[n].writes) => db' = db
          /\ (check[n].pc = "writes" /\ check'[n].pc = "returned")
             => /\ db' = db
                /\ \E node \in forkChoice'.nodes :
                     /\ node.stateRootBuf = StateRoot(GenesisStateOf(n))
                     /\ node.blockRootBuf = ValueOf(db.head)
                     /\ node.parentRootBuf = ZeroRoot]_vars

\* getLatest failed on storage that held a genesis, and the check of an eth1 block
\* forming the stored state again has returned.
C20_Witness ==
  /\ eth1Listener
  /\ faults = 1
  /\ \A m \in Eth1BlockNumbers :
       check[m].err = "none" /\ \A k \in WriteKeys : check[m].writes[k] # "failed"
  /\ \E n \in Eth1BlockNumbers :
       /\ check[n].pc = "returned"
       /\ OnlyInitialization(n)
       /\ GenesisStored(db, GenesisStateOf(n))

====
